---- MODULE Spec2Model ----
(***************************************************************************)
(* Model of the two analysis scripts under configs/setup_testing:          *)
(*   plot-csv.py     parse_arguments -> load_data -> process_data ->       *)
(*                   plot_metrics                                          *)
(*   plot_iperf3.py  load, grouping loop, compute_averages, two figures    *)
(* Floating point values are modelled as exact rationals in lowest terms.  *)
(***************************************************************************)
EXTENDS Integers, Sequences, FiniteSets, TLC

VARIABLES script, pc, argv, csv_file, csv_path, plot_title, df, stdout,
          exit_code, events, output_image,
          iperf_data, stream_data, next_interval, rtt_fig, tput_fig,
          data, chunk_size, avg_data

vars == <<script, pc, argv, csv_file, csv_path, plot_title, df, stdout,
          exit_code, events, output_image,
          iperf_data, stream_data, next_interval, rtt_fig, tput_fig,
          data, chunk_size, avg_data>>

csv_vars == <<argv, csv_file, csv_path, plot_title, df, output_image>>

iperf_vars == <<iperf_data, stream_data, next_interval, rtt_fig, tput_fig>>

avg_vars == <<data, chunk_size, avg_data>>

(***************************************************************************)
(* Bounds of the model.                                                    *)
(***************************************************************************)
MaxRows == 4

MaxWords == 2

MaxIntervals == 2

MaxSamples == 25

MaxChunk == 10

(***************************************************************************)
(* Numbers: a float is a rational n/d in lowest terms, d > 0.              *)
(***************************************************************************)
Abs(x) == IF x < 0 THEN -x ELSE x

RECURSIVE GCD(_, _)
GCD(a, b) == IF b = 0 THEN a ELSE GCD(b, a % b)

Rat(n, d) ==
    LET g == GCD(Abs(n), d)
    IN  [k |-> "num", n |-> n \div g, d |-> d \div g, s |-> ""]

NaN == [k |-> "nan", n |-> 0, d |-> 1, s |-> ""]

Str(t) == [k |-> "str", n |-> 0, d |-> 1, s |-> t]

RatAdd(a, b) ==
    LET l == (a.d \div GCD(a.d, b.d)) * b.d
    IN  Rat(a.n * (l \div a.d) + b.n * (l \div b.d), l)

RatSubInt(a, m) == Rat(a.n - m * a.d, a.d)

RatDivInt(a, m) == Rat(a.n, a.d * m)

RatMulInt(a, m) == Rat(a.n * m, a.d)

RECURSIVE RatSum(_)
RatSum(s) == IF s = <<>> THEN Rat(0, 1) ELSE RatAdd(Head(s), RatSum(Tail(s)))

\* numpy.mean of a non-empty list
Mean(s) == RatDivInt(RatSum(s), Len(s))

(***************************************************************************)
(* plot-csv.py                                                             *)
(***************************************************************************)
column_names == <<"ts", "sender", "normalized_tput", "rtt",
                  "retr_current", "retr_total", "cwnd", "ssthresh">>

numeric_columns == <<"ts", "normalized_tput", "rtt", "retr_current",
                     "retr_total", "cwnd", "ssthresh">>

Columns == {column_names[i] : i \in 1..Len(column_names)}

NumericColumns == {numeric_columns[i] : i \in 1..Len(numeric_columns)}

na_values == {"", " ", "NA", "NaN"}

ColIndex(c) == CHOOSE i \in 1..Len(column_names) : column_names[i] = c

\* A field of the CSV file as written: a numeral or some other text.
Numeral(n) == [k |-> "numeral", n |-> n, d |-> 1, s |-> ""]

Text(t) == [k |-> "text", n |-> 0, d |-> 1, s |-> t]

\* Strings are sequences of one-character strings.
Suffix == <<"_", "p", "l", "o", "t", "s", ".", "p", "n", "g">>

DefaultName == <<"s", "e", "n", "d", "e", "r", "-", "s", "s">>

RECURSIVE Join(_)
\* ' '.join(words)
Join(words) ==
    IF Len(words) = 0 THEN <<>>
    ELSE IF Len(words) = 1 THEN words[1]
    ELSE words[1] \o <<" ">> \o Join(Tail(words))

RECURSIVE Replace_first(_, _, _)
\* a replace that stops after the first occurrence
Replace_first(str, old, new) ==
    IF str = <<>> THEN <<>>
    ELSE IF Head(str) = old THEN <<new>> \o Tail(str)
    ELSE <<Head(str)>> \o Replace_first(Tail(str), old, new)

RECURSIVE Replace(_, _, _)
\* str.replace(old, new) for one-character old and new
Replace(str, old, new) ==
    IF str = <<>> THEN <<>>
    ELSE <<IF Head(str) = old THEN new ELSE Head(str)>>
         \o Replace(Tail(str), old, new)

IsNA(f) == f.k = "text" /\ f.s \in na_values

\* pandas.read_csv on one column: the na_values become NaN; a column whose
\* other fields are all numerals is parsed to floats, any other column keeps
\* its fields as strings (a numeral stays the string of its digits)
ReadColumn(fields) ==
    LET allNumeric == \A i \in 1..Len(fields) :
                         IsNA(fields[i]) \/ fields[i].k = "numeral"
    IN  [i \in 1..Len(fields) |->
           IF IsNA(fields[i]) THEN NaN
           ELSE IF fields[i].k = "numeral"
                THEN IF allNumeric THEN Rat(fields[i].n, 1)
                     ELSE [k |-> "str", n |-> fields[i].n, d |-> 1, s |-> "digits"]
                ELSE Str(fields[i].s)]

\* pandas.to_numeric(errors='coerce') on one cell: a float is kept, a string
\* of digits is parsed, anything else becomes NaN
to_numeric(cell) ==
    IF cell.k = "num" THEN cell
    ELSE IF cell.k = "str" /\ cell.s = "digits" THEN Rat(cell.n, 1)
    ELSE NaN

\* ffill that looks one row up only, at the cell as it was before filling
ffill_limit1(col) ==
    [i \in 1..Len(col) |-> IF col[i].k = "nan" /\ i > 1 THEN col[i - 1] ELSE col[i]]

RECURSIVE ffill(_)
\* fillna(method='ffill') on one column: a missing cell takes the value the
\* cell above it has after filling
ffill(col) ==
    IF Len(col) <= 1 THEN col
    ELSE LET init == ffill(SubSeq(col, 1, Len(col) - 1))
             last == col[Len(col)]
         IN  Append(init, IF last.k = "nan" THEN init[Len(init)] ELSE last)

\* the conversion with the wrong factor
KbpsToMbps_1024(cell) == IF cell.k = "num" THEN RatDivInt(cell, 1024) ELSE cell

KbpsToMbps(cell) == IF cell.k = "num" THEN RatDivInt(cell, 1000) ELSE cell

process_data_fn(frame) ==
    LET coerced == [c \in Columns |->
                      IF c \in NumericColumns
                      THEN [i \in 1..Len(frame[c]) |-> to_numeric(frame[c][i])]
                      ELSE frame[c]]
        filled  == [c \in Columns |-> ffill(coerced[c])]
    IN  [c \in Columns |->
           IF c = "normalized_tput"
           THEN [i \in 1..Len(filled[c]) |-> KbpsToMbps(filled[c][i])]
           ELSE filled[c]]

safe_title(title) == IF title # <<>> THEN Replace(title, " ", "_") ELSE DefaultName

OutputImage(title) == safe_title(title) \o Suffix

(***************************************************************************)
(* Inputs of plot-csv.py: the command line and the file it names.          *)
(***************************************************************************)
Paths == {"a.csv", "logs/b.csv"}

TestRun1 == <<"T", "e", "s", "t", " ", "R", "u", "n", " ", "1">>

Words == {<<>>, <<"a">>, TestRun1}

WordLists == UNION {[1..n -> Words] : n \in 0..MaxWords}

Argvs == {[csv_path |-> <<>>, title |-> <<>>]}
         \cup {[csv_path |-> <<p>>, title |-> t] : p \in Paths, t \in WordLists}

Kinds == {"na", "text", "numeral"}

Patterns == UNION {[1..n -> Kinds] : n \in 1..MaxRows}

NaTokens == <<"", " ", "NA", "NaN">>

\* Field of row i, column c of the file drawn from pattern p: every column
\* sees a rotation of p, and every numeral of the file is different.
Field(p, i, c) ==
    LET kind == p[((i + ColIndex(c)) % Len(p)) + 1]
    IN  IF kind = "na" THEN Text(NaTokens[((i + ColIndex(c)) % 4) + 1])
        ELSE IF c = "sender" THEN Text("10.0.0.1")
        ELSE IF kind = "text" THEN Text("abc")
        ELSE Numeral(500 * i + ColIndex(c))

FileOf(p) ==
    [exists |-> TRUE, malformed |-> FALSE,
     rows |-> [i \in 1..Len(p) |-> [c \in Columns |-> Field(p, i, c)]]]

NoFile == [exists |-> FALSE, malformed |-> FALSE, rows |-> <<>>]

BadFile == [exists |-> TRUE, malformed |-> TRUE, rows |-> <<>>]

Files == {NoFile, BadFile} \cup {FileOf(p) : p \in Patterns}

EmptyFrame == [c \in Columns |-> <<>>]

Msg(text, arg) == [text |-> text, arg |-> arg]

CsvIdle ==
    /\ argv = [csv_path |-> <<>>, title |-> <<>>]
    /\ csv_file = NoFile
    /\ csv_path = ""
    /\ plot_title = <<>>
    /\ df = EmptyFrame
    /\ output_image = <<>>

CsvInit ==
    /\ script = "plot-csv"
    /\ pc = "parse_arguments"
    /\ argv \in Argvs
    /\ csv_file \in Files
    /\ csv_path = ""
    /\ plot_title = <<>>
    /\ df = EmptyFrame
    /\ stdout = <<>>
    /\ events = <<>>
    /\ output_image = <<>>
    /\ exit_code = -1

\* argparse: csv_path and at least one title word are required
ArgsAccepted(a) == a.csv_path # <<>> /\ a.title # <<>>

\* parse_arguments without the sys.exit(1) after the message
parse_arguments_noexit ==
    /\ script = "plot-csv"
    /\ pc = "parse_arguments"
    /\ IF ~ArgsAccepted(argv)
       THEN /\ pc' = "exited"
            /\ exit_code' = 2
            /\ events' = Append(events, "usage")
            /\ UNCHANGED <<csv_path, plot_title, stdout>>
       ELSE /\ csv_path' = argv.csv_path[1]
            /\ plot_title' = Join(argv.title)
            /\ stdout' = IF ~csv_file.exists
                         THEN Append(stdout, Msg("Error: File '{}' does not exist.",
                                                 argv.csv_path[1]))
                         ELSE stdout
            /\ pc' = "load_data"
            /\ UNCHANGED <<exit_code, events>>
    /\ UNCHANGED <<script, argv, csv_file, df, output_image>>
    /\ UNCHANGED <<iperf_vars, avg_vars>>

parse_arguments ==
    /\ script = "plot-csv"
    /\ pc = "parse_arguments"
    /\ IF ~ArgsAccepted(argv)
       THEN /\ pc' = "exited"
            /\ exit_code' = 2
            /\ events' = Append(events, "usage")
            /\ UNCHANGED <<csv_path, plot_title, stdout>>
       ELSE /\ csv_path' = argv.csv_path[1]
            /\ plot_title' = Join(argv.title)
            /\ IF ~csv_file.exists
               THEN /\ stdout' = Append(stdout,
                           Msg("Error: File '{}' does not exist.", argv.csv_path[1]))
                    /\ pc' = "exited"
                    /\ exit_code' = 1
               ELSE /\ pc' = "load_data"
                    /\ UNCHANGED <<stdout, exit_code>>
            /\ UNCHANGED events
    /\ UNCHANGED <<script, argv, csv_file, df, output_image>>
    /\ UNCHANGED <<iperf_vars, avg_vars>>

\* pandas.read_csv raises on a file it cannot parse
ReadCsvFails(f) == ~f.exists \/ f.malformed

\* load_data without the try/except around read_csv
load_data_nocatch ==
    /\ script = "plot-csv"
    /\ pc = "load_data"
    /\ IF ReadCsvFails(csv_file)
       THEN /\ events' = Append(events, "traceback")
            /\ pc' = "exited"
            /\ exit_code' = 1
            /\ UNCHANGED df
       ELSE /\ df' = [c \in Columns |->
                       ReadColumn([i \in 1..Len(csv_file.rows) |-> csv_file.rows[i][c]])]
            /\ pc' = "process_data"
            /\ UNCHANGED <<exit_code, events>>
    /\ UNCHANGED <<script, argv, csv_file, csv_path, plot_title, stdout, output_image>>
    /\ UNCHANGED <<iperf_vars, avg_vars>>

load_data ==
    /\ script = "plot-csv"
    /\ pc = "load_data"
    /\ IF ReadCsvFails(csv_file)
       THEN /\ stdout' = Append(stdout, Msg("Error reading CSV file: {}", "exception"))
            /\ pc' = "exited"
            /\ exit_code' = 1
            /\ UNCHANGED df
       ELSE /\ df' = [c \in Columns |->
                       ReadColumn([i \in 1..Len(csv_file.rows) |-> csv_file.rows[i][c]])]
            /\ pc' = "process_data"
            /\ UNCHANGED <<stdout, exit_code>>
    /\ UNCHANGED <<script, argv, csv_file, csv_path, plot_title, events, output_image>>
    /\ UNCHANGED <<iperf_vars, avg_vars>>

process_data ==
    /\ script = "plot-csv"
    /\ pc = "process_data"
    /\ df' = process_data_fn(df)
    /\ pc' = "plot_metrics"
    /\ UNCHANGED <<script, argv, csv_file, csv_path, plot_title, stdout,
                   exit_code, events, output_image>>
    /\ UNCHANGED <<iperf_vars, avg_vars>>

\* plot_metrics that announces the file before saving it
plot_metrics_printfirst ==
    /\ script = "plot-csv"
    /\ pc = "plot_metrics"
    /\ \E savefig_ok \in BOOLEAN :
          IF savefig_ok
          THEN /\ output_image' = OutputImage(plot_title)
               /\ stdout' = Append(stdout,
                               Msg("Plots saved as '{}'", OutputImage(plot_title)))
               /\ events' = events \o <<"print", "savefig", "show">>
               /\ exit_code' = 0
          ELSE /\ stdout' = Append(stdout,
                               Msg("Plots saved as '{}'", OutputImage(plot_title)))
               /\ events' = events \o <<"print", "traceback">>
               /\ exit_code' = 1
               /\ UNCHANGED output_image
    /\ pc' = "exited"
    /\ UNCHANGED <<script, argv, csv_file, csv_path, plot_title, df>>
    /\ UNCHANGED <<iperf_vars, avg_vars>>

\* plot_metrics, then the end of main: savefig either writes the PNG or raises
\* (the exception is not caught and ends the process with a traceback)
plot_metrics ==
    /\ script = "plot-csv"
    /\ pc = "plot_metrics"
    /\ \E savefig_ok \in BOOLEAN :
          IF savefig_ok
          THEN /\ output_image' = OutputImage(plot_title)
               /\ stdout' = Append(stdout,
                               Msg("Plots saved as '{}'", OutputImage(plot_title)))
               /\ events' = events \o <<"savefig", "print", "show">>
               /\ exit_code' = 0
          ELSE /\ events' = Append(events, "traceback")
               /\ exit_code' = 1
               /\ UNCHANGED <<output_image, stdout>>
    /\ pc' = "exited"
    /\ UNCHANGED <<script, argv, csv_file, csv_path, plot_title, df>>
    /\ UNCHANGED <<iperf_vars, avg_vars>>

(***************************************************************************)
(* plot_iperf3.py                                                          *)
(***************************************************************************)
NoStreams == <<>>

\* position of stream_id among the keys of stream_data, 0 when absent
KeyIndex(sd, stream_id) ==
    IF \E k \in 1..Len(sd) : sd[k].id = stream_id
    THEN CHOOSE k \in 1..Len(sd) : sd[k].id = stream_id
    ELSE 0

Raised(sd) == [ok |-> FALSE, sd |-> sd]

Done(sd) == [ok |-> TRUE, sd |-> sd]

\* the loop body without the `not in` test: the series is started afresh
\* for every sample
AddSample_reset(sd, interval, stream) ==
    IF ~stream.has_socket THEN Raised(sd)
    ELSE
      LET fresh == [id |-> stream.socket, time |-> <<>>, rtt |-> <<>>, bps |-> <<>>]
          sd1 == IF KeyIndex(sd, stream.socket) = 0
                 THEN Append(sd, fresh)
                 ELSE [sd EXCEPT ![KeyIndex(sd, stream.socket)] = fresh]
          k   == KeyIndex(sd1, stream.socket)
      IN  IF ~interval.has_sum \/ ~interval.has_start THEN Raised(sd1)
          ELSE
            LET sd2 == [sd1 EXCEPT ![k].time = Append(@, Rat(interval.start, 1))]
                sd3 == [sd2 EXCEPT ![k].rtt =
                          Append(@, Rat(IF stream.has_rtt THEN stream.rtt ELSE 0, 1000))]
            IN  IF ~stream.has_bps THEN Raised(sd3)
                ELSE Done([sd3 EXCEPT ![k].bps =
                             Append(@, Rat(stream.bits_per_second, 1000000))])

\* the loop body reading bits_per_second with .get(..., 0) as it reads rtt
AddSample_bpsdefault(sd, interval, stream) ==
    IF ~stream.has_socket THEN Raised(sd)
    ELSE
      LET sd1 == IF KeyIndex(sd, stream.socket) = 0
                 THEN Append(sd, [id |-> stream.socket, time |-> <<>>,
                                  rtt |-> <<>>, bps |-> <<>>])
                 ELSE sd
          k   == KeyIndex(sd1, stream.socket)
      IN  IF ~interval.has_sum \/ ~interval.has_start THEN Raised(sd1)
          ELSE
            LET sd2 == [sd1 EXCEPT ![k].time = Append(@, Rat(interval.start, 1))]
                sd3 == [sd2 EXCEPT ![k].rtt =
                          Append(@, Rat(IF stream.has_rtt THEN stream.rtt ELSE 0, 1000))]
            IN  Done([sd3 EXCEPT ![k].bps =
                        Append(@, Rat(IF stream.has_bps THEN stream.bits_per_second
                                      ELSE 0, 1000000))])

\* One pass of the inner loop body (lines 17-22). A missing key raises KeyError
\* at the statement that reads it; what was appended before stays appended.
AddSample(sd, interval, stream) ==
    IF ~stream.has_socket THEN Raised(sd)
    ELSE
      LET sd1 == IF KeyIndex(sd, stream.socket) = 0
                 THEN Append(sd, [id |-> stream.socket, time |-> <<>>,
                                  rtt |-> <<>>, bps |-> <<>>])
                 ELSE sd
          k   == KeyIndex(sd1, stream.socket)
      IN  IF ~interval.has_sum \/ ~interval.has_start THEN Raised(sd1)
          ELSE
            LET sd2 == [sd1 EXCEPT ![k].time = Append(@, Rat(interval.start, 1))]
                sd3 == [sd2 EXCEPT ![k].rtt =
                          Append(@, Rat(IF stream.has_rtt THEN stream.rtt ELSE 0, 1000))]
            IN  IF ~stream.has_bps THEN Raised(sd3)
                ELSE Done([sd3 EXCEPT ![k].bps =
                             Append(@, Rat(stream.bits_per_second, 1000000))])

RECURSIVE AddSamples(_, _, _)
\* the inner loop over interval['streams'], from its j-th stream on
AddSamples(sd, interval, j) ==
    IF j > Len(interval.streams) THEN Done(sd)
    ELSE LET r == AddSample(sd, interval, interval.streams[j])
         IN  IF r.ok THEN AddSamples(r.sd, interval, j + 1) ELSE r

\* the body of the outer loop for one interval (lines 16-22)
AddInterval(sd, interval) ==
    IF ~interval.has_streams THEN Raised(sd) ELSE AddSamples(sd, interval, 1)

Min(a, b) == IF a < b THEN a ELSE b

RECURSIVE AverageFrom(_, _, _, _)
\* the loop of compute_averages from offset i (0-based) on
AverageFrom(d, i, c, acc) ==
    IF i >= Len(d.time) THEN acc
    ELSE LET chunk_time == SubSeq(d.time, i + 1, Min(i + c, Len(d.time)))
             chunk_rtt  == SubSeq(d.rtt, i + 1, Min(i + c, Len(d.rtt)))
             chunk_bps  == SubSeq(d.bps, i + 1, Min(i + c, Len(d.bps)))
         IN  AverageFrom(d, i + c, c,
                IF chunk_time # <<>>
                THEN [time |-> Append(acc.time, Mean(chunk_time)),
                      rtt  |-> Append(acc.rtt, RatSubInt(Mean(chunk_rtt), 45)),
                      bps  |-> Append(acc.bps, Mean(chunk_bps))]
                ELSE acc)

NoAverages == [time |-> <<>>, rtt |-> <<>>, bps |-> <<>>]

\* an aggregation that keeps full chunks only
compute_averages_fullonly(d, c) ==
    LET m == (Len(d.time) \div c) * c
    IN  AverageFrom([time |-> SubSeq(d.time, 1, m), rtt |-> SubSeq(d.rtt, 1, m),
                     bps |-> SubSeq(d.bps, 1, m)], 0, c, NoAverages)

compute_averages(d, c) == AverageFrom(d, 0, c, NoAverages)

\* the loop of one figure: one plt.plot per item of stream_data, labelled with
\* the running counter `stream`, which starts at `first`
PlotLines(sd, first, word, series) ==
    [k \in 1..Len(sd) |->
       LET avg == compute_averages(sd[k], 10)
       IN  [stream_id |-> sd[k].id, label |-> <<word, first + k - 1>>,
            x |-> avg.time, y |-> avg[series]]]

rtt_lines(sd) == PlotLines(sd, 1, "Stream", "rtt")

\* the second figure without `stream = 1` before its loop
tput_lines_noreset(sd) == PlotLines(sd, Len(sd) + 1, "Steam", "bps")

tput_lines(sd) == PlotLines(sd, 1, "Steam", "bps")

(***************************************************************************)
(* Inputs of plot_iperf3.py: the report file ./cubic_5flows.json.          *)
(***************************************************************************)
SocketLists == {<<>>, <<5>>, <<7>>, <<5, 7>>, <<7, 5>>, <<5, 5>>}

SmallLayouts == UNION {[1..n -> SocketLists] : n \in 0..MaxIntervals}

LongLayouts == {[i \in 1..n |-> sl] : n \in 1..MaxSamples, sl \in {<<5>>, <<7, 5>>}}

NoDefect == <<"none", 0, 0>>

Defects(layout) ==
    {NoDefect, <<"intervals", 0, 0>>}
    \cup {<<key, i, 0>> : key \in {"streams", "sum", "start"}, i \in 1..Len(layout)}
    \cup UNION {{<<key, i, j>> : key \in {"socket", "rtt", "bits_per_second"},
                                 j \in 1..Len(layout[i])} : i \in 1..Len(layout)}

RawRtt(i, socket) == 45000 + 500 * ((i * i + socket) % 9)

RawBps(i, socket) == 250000 * (1 + ((3 * i + socket) % 7))

\* The report with the sockets of `layout`, from which `defect` names the one
\* key that is left out.
Report(layout, defect) ==
    [file |-> "ok",
     has_intervals |-> defect[1] # "intervals",
     intervals |->
       IF defect[1] = "intervals" THEN <<>>
       ELSE [i \in 1..Len(layout) |->
              [has_streams |-> defect # <<"streams", i, 0>>,
               has_sum     |-> defect # <<"sum", i, 0>>,
               has_start   |-> defect # <<"start", i, 0>>,
               start       |-> i - 1,
               streams     |->
                 [j \in 1..Len(layout[i]) |->
                    [has_socket |-> defect # <<"socket", i, j>>,
                     socket     |-> layout[i][j],
                     has_rtt    |-> defect # <<"rtt", i, j>>,
                     rtt        |-> RawRtt(i, layout[i][j]),
                     has_bps    |-> defect # <<"bits_per_second", i, j>>,
                     bits_per_second |-> RawBps(i, layout[i][j])]]]]]

NoReport(why) == [file |-> why, has_intervals |-> FALSE, intervals |-> <<>>]

Reports ==
    {NoReport("absent"), NoReport("malformed")}
    \cup UNION {{Report(l, d) : d \in Defects(l)} : l \in SmallLayouts}
    \cup {Report(l, NoDefect) : l \in LongLayouts}

IperfIdle ==
    /\ iperf_data = NoReport("absent")
    /\ stream_data = NoStreams
    /\ next_interval = 0
    /\ rtt_fig = <<>>
    /\ tput_fig = <<>>

IperfInit ==
    /\ script = "plot_iperf3"
    /\ pc = "load"
    /\ iperf_data \in Reports
    /\ stream_data = NoStreams
    /\ next_interval = 0
    /\ rtt_fig = <<>>
    /\ tput_fig = <<>>
    /\ stdout = <<>>
    /\ events = <<>>
    /\ exit_code = -1

\* an exception nobody catches: traceback, exit status 1
Crash ==
    /\ pc' = "exited"
    /\ exit_code' = 1
    /\ events' = Append(events, "traceback")

\* lines 6-12: open, json.load, iperf_data.get('intervals', [])
load ==
    /\ script = "plot_iperf3"
    /\ pc = "load"
    /\ IF iperf_data.file # "ok"
       THEN /\ Crash
            /\ UNCHANGED next_interval
       ELSE /\ next_interval' = 1
            /\ pc' = IF iperf_data.intervals = <<>> THEN "plot_rtt" ELSE "group"
            /\ UNCHANGED <<exit_code, events>>
    /\ stream_data' = NoStreams
    /\ UNCHANGED <<script, stdout, iperf_data, rtt_fig, tput_fig>>
    /\ UNCHANGED <<csv_vars, avg_vars>>

\* lines 15-22: one iteration of the outer loop
group_interval ==
    /\ script = "plot_iperf3"
    /\ pc = "group"
    /\ LET r == AddInterval(stream_data, iperf_data.intervals[next_interval])
       IN  /\ stream_data' = r.sd
           /\ IF r.ok
              THEN /\ next_interval' = next_interval + 1
                   /\ pc' = IF next_interval = Len(iperf_data.intervals)
                            THEN "plot_rtt" ELSE "group"
                   /\ UNCHANGED <<exit_code, events>>
              ELSE /\ Crash
                   /\ UNCHANGED next_interval
    /\ UNCHANGED <<script, stdout, iperf_data, rtt_fig, tput_fig>>
    /\ UNCHANGED <<csv_vars, avg_vars>>

\* lines 43-60: the RTT figure
plot_rtt ==
    /\ script = "plot_iperf3"
    /\ pc = "plot_rtt"
    /\ rtt_fig' = rtt_lines(stream_data)
    /\ events' = events \o <<"savefig rtt_vs_time_cubic.png", "show">>
    /\ pc' = "plot_tput"
    /\ UNCHANGED <<script, stdout, exit_code, iperf_data, stream_data,
                   next_interval, tput_fig>>
    /\ UNCHANGED <<csv_vars, avg_vars>>

\* lines 62-76: the throughput figure, then the end of the script
plot_tput ==
    /\ script = "plot_iperf3"
    /\ pc = "plot_tput"
    /\ tput_fig' = tput_lines(stream_data)
    /\ events' = events \o <<"savefig tput_vs_time_cubic.png", "show">>
    /\ pc' = "exited"
    /\ exit_code' = 0
    /\ UNCHANGED <<script, stdout, iperf_data, stream_data, next_interval, rtt_fig>>
    /\ UNCHANGED <<csv_vars, avg_vars>>

(***************************************************************************)
(* compute_averages called on its own, with any chunk_size >= 1.           *)
(***************************************************************************)
Samples(n, a) ==
    [time |-> [i \in 1..n |-> Rat(i - 1, 1)],
     rtt  |-> [i \in 1..n |-> Rat(RawRtt(i, a), 1000)],
     bps  |-> [i \in 1..n |-> Rat(RawBps(i, a), 1000000)]]

SampleSets == {Samples(n, a) : n \in 0..MaxSamples, a \in {5, 7}}

AvgIdle ==
    /\ data = NoAverages
    /\ chunk_size = 0
    /\ avg_data = NoAverages

AvgInit ==
    /\ script = "compute_averages"
    /\ pc = "call"
    /\ data \in SampleSets
    /\ chunk_size \in 1..MaxChunk
    /\ avg_data = NoAverages
    /\ stdout = <<>>
    /\ events = <<>>
    /\ exit_code = -1

call_compute_averages ==
    /\ script = "compute_averages"
    /\ pc = "call"
    /\ avg_data' = compute_averages(data, chunk_size)
    /\ pc' = "returned"
    /\ UNCHANGED <<script, stdout, exit_code, events, data, chunk_size>>
    /\ UNCHANGED <<csv_vars, iperf_vars>>

(***************************************************************************)
(* One run of one script.                                                  *)
(***************************************************************************)
Init ==
    \/ CsvInit /\ IperfIdle /\ AvgIdle
    \/ IperfInit /\ CsvIdle /\ AvgIdle
    \/ AvgInit /\ CsvIdle /\ IperfIdle

Next ==
    \/ parse_arguments
    \/ load_data
    \/ process_data
    \/ plot_metrics
    \/ load
    \/ group_interval
    \/ plot_rtt
    \/ plot_tput
    \/ call_compute_averages

Spec == Init /\ [][Next]_vars

(***************************************************************************)
(* Properties of plot-csv.py                                               *)
(***************************************************************************)
Rows == csv_file.rows

\* process_data has run on the frame
Processed ==
    /\ script = "plot-csv"
    /\ \/ pc = "plot_metrics"
       \/ pc = "exited" /\ df # EmptyFrame

\* the raw cell of row i, column c is a number
ValidRaw(i, c) == Rows[i][c].k = "numeral"

\* nearest row before i whose raw cell of column c is a number, 0 if none
LastValid(i, c) ==
    LET before == {j \in 1..(i - 1) : ValidRaw(j, c)}
    IN  IF before = {} THEN 0
        ELSE CHOOSE j \in before : \A h \in before : h <= j

\* the processed value of a raw number n of column c
Processed_of(c, n) ==
    IF c = "normalized_tput"
    THEN [k |-> "num", n |-> n \div GCD(n, 1000), d |-> 1000 \div GCD(n, 1000), s |-> ""]
    ELSE [k |-> "num", n |-> n, d |-> 1, s |-> ""]

\* C1: forward-fill law of process_data. In every numeric column a cell whose
\* raw value is missing or not a number gets the value of the nearest
\* preceding row whose raw cell was a number, stays missing when there is no
\* such row, and a raw number is never replaced by a neighbour's value.
ForwardFillLaw ==
    Processed =>
      \A c \in NumericColumns :
        /\ Len(df[c]) = Len(Rows)
        /\ \A i \in 1..Len(Rows) :
              IF ValidRaw(i, c)
              THEN df[c][i] = Processed_of(c, Rows[i][c].n)
              ELSE IF LastValid(i, c) = 0
                   THEN df[c][i].k = "nan"
                   ELSE df[c][i] = Processed_of(c, Rows[LastValid(i, c)][c].n)

\* a missing cell is filled from the nearer of two earlier numbers, across a gap
ForwardFillWitness ==
    /\ Processed
    /\ \E c \in NumericColumns : \E i \in 1..Len(Rows) :
          /\ ~ValidRaw(i, c)
          /\ LastValid(i, c) > 1
          /\ ValidRaw(1, c)
          /\ LastValid(i, c) < i - 1
          /\ df[c][i].k = "num"

\* C2: throughput conversion. processed = raw / 1000 for every raw number of
\* normalized_tput, a forward-filled row ends with the value of the row it was
\* filled from (divided once), and no other column is scaled.
ThroughputConversion ==
    Processed =>
      /\ \A i \in 1..Len(Rows) :
            LET t == df["normalized_tput"][i]
                j == LastValid(i, "normalized_tput")
            IN  IF ValidRaw(i, "normalized_tput")
                THEN t.k = "num" /\ t.n * 1000 = Rows[i]["normalized_tput"].n * t.d
                ELSE j # 0 => t = df["normalized_tput"][j]
      /\ \A c \in NumericColumns \ {"normalized_tput"} : \A i \in 1..Len(Rows) :
            ValidRaw(i, c) => df[c][i].n = Rows[i][c].n /\ df[c][i].d = 1

\* a forward-filled throughput row next to raw numbers of other columns
ThroughputWitness ==
    /\ Processed
    /\ \E i \in 1..Len(Rows) :
          /\ ~ValidRaw(i, "normalized_tput")
          /\ LastValid(i, "normalized_tput") # 0
          /\ df["normalized_tput"][i].d > 1
          /\ \E c \in NumericColumns \ {"normalized_tput"} : ValidRaw(i, c)

Test_Run_1_plots_png ==
    <<"T", "e", "s", "t", "_", "R", "u", "n", "_", "1",
      "_", "p", "l", "o", "t", "s", ".", "p", "n", "g">>

sender_ss_plots_png ==
    <<"s", "e", "n", "d", "e", "r", "-", "s", "s",
      "_", "p", "l", "o", "t", "s", ".", "p", "n", "g">>

\* C3: the saved file's name is a function of the title alone: the title with
\* every space replaced by an underscore followed by _plots.png, and
\* sender-ss_plots.png for the empty title.
FilenameMapping ==
    (script = "plot-csv" /\ output_image # <<>>) =>
      /\ plot_title = Join(argv.title)
      /\ IF plot_title = <<>>
         THEN output_image = sender_ss_plots_png
         ELSE /\ Len(output_image) = Len(plot_title) + 10
              /\ \A i \in 1..Len(plot_title) :
                    output_image[i] = IF plot_title[i] = " " THEN "_" ELSE plot_title[i]
              /\ SubSeq(output_image, Len(plot_title) + 1, Len(output_image))
                    = <<"_", "p", "l", "o", "t", "s", ".", "p", "n", "g">>
      /\ plot_title = TestRun1 => output_image = Test_Run_1_plots_png

\* a saved plot whose title has several spaces
FilenameWitness ==
    /\ script = "plot-csv"
    /\ output_image = Test_Run_1_plots_png
    /\ plot_title = TestRun1

MissingFileMsg(path) == Msg("Error: File '{}' does not exist.", path)

\* C4: when csv_path names no existing file the process prints an error that
\* contains the path and exits with status 1 before any load, processing or
\* plotting step; no PNG is written.
MissingFileExit ==
    (script = "plot-csv" /\ ArgsAccepted(argv) /\ ~csv_file.exists) =>
      /\ pc \in {"parse_arguments", "exited"}
      /\ df = EmptyFrame
      /\ output_image = <<>>
      /\ events = <<>>
      /\ pc = "exited" =>
            /\ exit_code = 1
            /\ stdout = <<MissingFileMsg(argv.csv_path[1])>>
            /\ csv_path = argv.csv_path[1]

MissingFileWitness ==
    /\ script = "plot-csv"
    /\ pc = "exited"
    /\ ~csv_file.exists
    /\ stdout = <<MissingFileMsg("logs/b.csv")>>

\* C7: when the file exists but cannot be read as CSV, load_data prints an
\* error and the process exits with status 1; process_data and plot_metrics
\* never run and no PNG is written.
CsvParseFailure ==
    (script = "plot-csv" /\ ArgsAccepted(argv) /\ csv_file.exists
       /\ csv_file.malformed) =>
      /\ pc \in {"parse_arguments", "load_data", "exited"}
      /\ df = EmptyFrame
      /\ output_image = <<>>
      /\ events = <<>>
      /\ pc = "exited" =>
            /\ exit_code = 1
            /\ Len(stdout) = 1
            /\ stdout[1].text = "Error reading CSV file: {}"

CsvParseFailureWitness ==
    /\ script = "plot-csv"
    /\ pc = "exited"
    /\ csv_file.malformed
    /\ exit_code = 1
    /\ Len(stdout) = 1

\* C8 as stated: exit code 1 with a message if the input file is missing, and
\* in every other run exit code 0 after save, print and show in that order.
ExitStatusAsStated ==
    (script = "plot-csv" /\ ArgsAccepted(argv) /\ pc = "exited") =>
      IF ~csv_file.exists
      THEN exit_code = 1 /\ stdout # <<>>
      ELSE exit_code = 0 /\ events = <<"savefig", "print", "show">>

\* C8 amended: exit code 1 after a message if the input file is missing or
\* the CSV cannot be read; exit code 0 only after the PNG was saved, the
\* filename printed and the figure shown, in that order, which is how every
\* run ends whose file was read and whose plotting raised no exception.
ExitStatus ==
    (script = "plot-csv" /\ ArgsAccepted(argv) /\ pc = "exited") =>
      /\ ~csv_file.exists =>
            exit_code = 1 /\ stdout = <<MissingFileMsg(argv.csv_path[1])>>
      /\ (csv_file.exists /\ csv_file.malformed) =>
            /\ exit_code = 1
            /\ Len(stdout) = 1
            /\ stdout[1].text = "Error reading CSV file: {}"
      /\ exit_code = 0 =>
            /\ events = <<"savefig", "print", "show">>
            /\ output_image # <<>>
            /\ stdout = <<Msg("Plots saved as '{}'", output_image)>>
      /\ (csv_file.exists /\ ~csv_file.malformed
            /\ "traceback" \notin {events[i] : i \in 1..Len(events)}) =>
            exit_code = 0
      /\ exit_code \in {0, 1}

ExitStatusWitness ==
    /\ script = "plot-csv"
    /\ pc = "exited"
    /\ exit_code = 0
    /\ events = <<"savefig", "print", "show">>
    /\ Len(Rows) > 1

(***************************************************************************)
(* Properties of plot_iperf3.py                                            *)
(***************************************************************************)
RECURSIVE SumRange(_, _, _)
SumRange(s, lo, hi) ==
    IF lo > hi THEN Rat(0, 1) ELSE RatAdd(s[lo], SumRange(s, lo + 1, hi))

\* m = sum(s[lo..hi]) / (hi - lo + 1) - offset
IsMeanOf(m, s, lo, hi, offset) ==
    /\ m.k = "num"
    /\ RatMulInt(RatAdd(m, Rat(offset, 1)), hi - lo + 1) = SumRange(s, lo, hi)

\* avg is the chunk aggregation of d with chunk size c
Aggregates(avg, d, c) ==
    LET n  == Len(d.time)
        B  == (n + c - 1) \div c
        lo(b) == (b - 1) * c + 1
        hi(b) == IF b * c < n THEN b * c ELSE n
    IN  /\ Len(avg.time) = B /\ Len(avg.rtt) = B /\ Len(avg.bps) = B
        /\ \A i \in 1..n : Cardinality({b \in 1..B : lo(b) <= i /\ i <= hi(b)}) = 1
        /\ \A b \in 1..B :
              /\ hi(b) - lo(b) + 1 \in 1..c
              /\ b < B => hi(b) - lo(b) + 1 = c
              /\ IsMeanOf(avg.time[b], d.time, lo(b), hi(b), 0)
              /\ IsMeanOf(avg.bps[b], d.bps, lo(b), hi(b), 0)
              /\ IsMeanOf(avg.rtt[b], d.rtt, lo(b), hi(b), 45)

\* C5: compute_averages on n samples with chunk size c >= 1 gives ceil(n/c)
\* buckets; bucket k covers the contiguous samples k*c .. min((k+1)*c, n)-1,
\* every sample is in exactly one bucket, all buckets but the last have c
\* samples, time and bps are the means of the members and rtt is the mean
\* minus 45; c = 10 and n = 25 gives 3 buckets of sizes 10, 10, 5.
ChunkAggregation ==
    /\ (script = "compute_averages" /\ pc = "returned") =>
          /\ Aggregates(avg_data, data, chunk_size)
          /\ (chunk_size = 10 /\ Len(data.time) = 25) => Len(avg_data.time) = 3
    /\ (script = "plot_iperf3" /\ pc = "exited" /\ exit_code = 0) =>
          \A k \in 1..Len(stream_data) :
            /\ Aggregates([time |-> rtt_fig[k].x, rtt |-> rtt_fig[k].y,
                           bps |-> tput_fig[k].y], stream_data[k], 10)
            /\ tput_fig[k].x = rtt_fig[k].x

ChunkAggregationWitness ==
    /\ script = "compute_averages"
    /\ pc = "returned"
    /\ chunk_size = 10
    /\ Len(data.time) = 25
    /\ Len(avg_data.bps) = 3

Intervals == iperf_data.intervals

RECURSIVE SamplesOf(_, _)
\* the (interval, stream) pairs of the first n intervals, in reading order
SamplesOf(ivs, n) ==
    IF n = 0 THEN <<>>
    ELSE SamplesOf(ivs, n - 1) \o [j \in 1..Len(ivs[n].streams) |-> <<n, j>>]

\* the pairs among them whose socket is s
SamplesOfSocket(ivs, n, s) ==
    LET IsOfSocket(p) == ivs[p[1]].streams[p[2]].socket = s
    IN  SelectSeq(SamplesOf(ivs, n), IsOfSocket)

SocketsOf(ivs, n) ==
    {ivs[p[1]].streams[p[2]].socket :
       p \in {SamplesOf(ivs, n)[q] : q \in 1..Len(SamplesOf(ivs, n))}}

\* the series stream_data holds for socket s, empty lists if it has none
SeriesOf(s) ==
    IF KeyIndex(stream_data, s) = 0
    THEN [id |-> s, time |-> <<>>, rtt |-> <<>>, bps |-> <<>>]
    ELSE stream_data[KeyIndex(stream_data, s)]

\* number of intervals the grouping loop has completed
Grouped ==
    IF pc = "group" THEN next_interval - 1
    ELSE IF pc \in {"plot_rtt", "plot_tput"} \/ (pc = "exited" /\ exit_code = 0)
         THEN Len(Intervals)
         ELSE 0

GroupingDone ==
    /\ script = "plot_iperf3"
    /\ pc \in {"plot_rtt", "plot_tput"} \/ (pc = "exited" /\ exit_code = 0)

\* C6: after the grouping loop, stream_data[s] has exactly one entry per
\* (interval, stream) pair whose socket is s, in interval order, and nothing
\* of another socket; time is the interval's sum.start, rtt is rtt/1000 (0
\* without rtt), bps is bits_per_second/1e6; the three lists of a stream have
\* equal length.
GroupingCorrectness ==
    (script = "plot_iperf3" /\ (pc = "group" \/ GroupingDone)) =>
      /\ {stream_data[k].id : k \in 1..Len(stream_data)} = SocketsOf(Intervals, Grouped)
      /\ \A k, h \in 1..Len(stream_data) :
            stream_data[k].id = stream_data[h].id => k = h
      /\ \A s \in SocketsOf(Intervals, Grouped) :
            LET want == SamplesOfSocket(Intervals, Grouped, s)
                got  == SeriesOf(s)
            IN  /\ Len(got.time) = Len(want)
                /\ Len(got.rtt) = Len(want)
                /\ Len(got.bps) = Len(want)
                /\ \A q \in 1..Len(want) :
                      LET iv == Intervals[want[q][1]]
                          st == iv.streams[want[q][2]]
                      IN  /\ got.time[q].n = iv.start * got.time[q].d
                          /\ got.rtt[q].n * 1000 =
                                (IF st.has_rtt THEN st.rtt ELSE 0) * got.rtt[q].d
                          /\ got.bps[q].n * 1000000 = st.bits_per_second * got.bps[q].d

\* two sockets over two intervals, one sample without rtt
GroupingWitness ==
    /\ GroupingDone
    /\ Len(stream_data) = 2
    /\ Len(stream_data[1].time) = 2
    /\ Len(stream_data[2].time) = 2
    /\ \E q \in 1..2 : stream_data[2].rtt[q].n = 0

\* a key that the code reads with the subscript operator is absent from a
\* place the loops reach
SubscriptedKeyMissing ==
    \E i \in 1..Len(Intervals) :
       \/ ~Intervals[i].has_streams
       \/ /\ Intervals[i].streams # <<>>
          /\ ~Intervals[i].has_sum \/ ~Intervals[i].has_start
       \/ \E j \in 1..Len(Intervals[i].streams) :
             \/ ~Intervals[i].streams[j].has_socket
             \/ ~Intervals[i].streams[j].has_bps

AnyKeyMissing ==
    \/ ~iperf_data.has_intervals
    \/ \E i \in 1..Len(Intervals) :
          \/ ~Intervals[i].has_streams
          \/ ~Intervals[i].has_sum
          \/ ~Intervals[i].has_start
          \/ \E j \in 1..Len(Intervals[i].streams) :
                \/ ~Intervals[i].streams[j].has_socket
                \/ ~Intervals[i].streams[j].has_rtt
                \/ ~Intervals[i].streams[j].has_bps

Crashed == pc = "exited" /\ exit_code = 1 /\ events = <<"traceback">>

\* C9 as stated: a report that lacks any of the keys intervals, streams,
\* sum.start, socket, rtt, bits_per_second crashes instead of reaching the plots.
NoGuardAsStated ==
    (script = "plot_iperf3" /\ iperf_data.file = "ok" /\ AnyKeyMissing) =>
      /\ pc \notin {"plot_rtt", "plot_tput"}
      /\ pc = "exited" => Crashed

\* C9 amended: a report in which an interval lacks streams, a stream lacks
\* socket or bits_per_second, or an interval with at least one stream lacks
\* sum or sum.start crashes with an unhandled error before any plot; a report
\* without intervals is read as having none and a stream without rtt gets
\* rtt 0, and such a run goes on to both plots.
NoGuard ==
    (script = "plot_iperf3" /\ iperf_data.file = "ok") =>
      IF SubscriptedKeyMissing
      THEN /\ pc \notin {"plot_rtt", "plot_tput"}
           /\ rtt_fig = <<>> /\ tput_fig = <<>>
           /\ pc = "exited" => Crashed
      ELSE /\ pc = "exited" =>
                /\ exit_code = 0
                /\ events = <<"savefig rtt_vs_time_cubic.png", "show",
                              "savefig tput_vs_time_cubic.png", "show">>
                /\ ~iperf_data.has_intervals => rtt_fig = <<>> /\ tput_fig = <<>>

\* a crash on a missing bits_per_second in the second interval
NoGuardWitness ==
    /\ script = "plot_iperf3"
    /\ Crashed
    /\ Len(Intervals) = 2
    /\ \E j \in 1..Len(Intervals[2].streams) : ~Intervals[2].streams[j].has_bps
    /\ Len(stream_data) > 0

\* position of the first sample of socket s in reading order
FirstSample(s) ==
    LET all == SamplesOf(Intervals, Len(Intervals))
    IN  CHOOSE q \in 1..Len(all) :
          /\ Intervals[all[q][1]].streams[all[q][2]].socket = s
          /\ \A r \in 1..(q - 1) : Intervals[all[r][1]].streams[all[r][2]].socket # s

\* 1-based rank of socket s in order of first appearance
Rank(s) ==
    1 + Cardinality({t \in SocketsOf(Intervals, Len(Intervals)) :
                       FirstSample(t) < FirstSample(s)})

IndexedByFirstAppearance(fig) ==
    /\ Len(fig) = Cardinality(SocketsOf(Intervals, Len(Intervals)))
    /\ \A k \in 1..Len(fig) :
          /\ fig[k].label[2] = k
          /\ fig[k].stream_id \in SocketsOf(Intervals, Len(Intervals))
          /\ Rank(fig[k].stream_id) = k

\* C10: each figure draws one line per distinct socket id, indexed 1..N
\* without gap or repeat in order of first appearance, and both figures give
\* the same index to the same socket id.
LegendIndexing ==
    /\ (script = "plot_iperf3" /\ pc = "plot_tput") => IndexedByFirstAppearance(rtt_fig)
    /\ (script = "plot_iperf3" /\ pc = "exited" /\ exit_code = 0) =>
          /\ IndexedByFirstAppearance(rtt_fig)
          /\ IndexedByFirstAppearance(tput_fig)
          /\ \A k \in 1..Len(rtt_fig) : \A h \in 1..Len(tput_fig) :
                rtt_fig[k].stream_id = tput_fig[h].stream_id
                  <=> rtt_fig[k].label[2] = tput_fig[h].label[2]

\* two lines per figure, socket 7 first because it appears first
LegendWitness ==
    /\ script = "plot_iperf3"
    /\ pc = "exited"
    /\ Len(tput_fig) = 2
    /\ tput_fig[1].stream_id = 7
    /\ tput_fig[2].label[2] = 2

====
